---- MODULE Spec2Model ----
(***************************************************************************)
(* Model of test-execute-processor.py: a sequential script that checks two *)
(* credentials, uploads a file to object storage, inserts a document row,  *)
(* invokes the execute-processor-run function and reads the run row once.  *)
(* The remote platform is the environment: every response (status code and *)
(* JSON body) is chosen nondeterministically.                              *)
(***************************************************************************)
EXTENDS Integers, Sequences, FiniteSets, TLC

\* ---------------------------------------------------------------- bounds
\* longest JSON array a response body carries
MaxRows == 2
\* how many of the byte values of ByteSamples os.urandom may return
NumSamples == 2

\* ------------------------------------------------------ program constants
ORGANIZATION_ID == "b822d5c9-706a-4e37-9d7a-c0b0417efe56"
PROCESSOR_ID == "9024a072-211d-40fc-a64f-b9d7a7f31a72"
\* os.urandom(4)
URANDOM_LEN == 4
\* time.sleep(2)
SLEEP_SECONDS == 2
\* exit status of a process ended by exit(1) or by an uncaught exception
EXIT_FAILURE == 1
\* exit status of a process that runs off the end of the script
EXIT_SUCCESS == 0
\* exit_code while the process is still running
NotExited == -1

\* Python's None (os.getenv of an unset variable, dict.get of a missing key,
\* a function's failure sentinel)
None == "None"

\* ------------------------------------------------------------ environment
\* values os.getenv can give: unset, set but empty, set
EnvValues == {None, "", "key"}

\* HTTP status codes the platform may answer with
StatusCodes == {200, 201, 202, 500}

\* identifiers a JSON body may carry; "" is a present but empty identifier
DocIdValues == {"", "doc-1", "doc-2"}
RunIdValues == {"", "run-1", "run-2"}
RunStatuses == {"pending", "completed"}

\* sequences over S of length 0..n
SeqUpTo(S, n) == UNION {[1..k -> S] : k \in 0..n}

\* a JSON object is a function from its keys to strings
JsonObject(keys, idkey, id) == [k \in keys |-> IF k = idkey THEN id ELSE "x"]

NoObject == JsonObject({"none"}, "none", "x")

\* response bodies: text that is not JSON, JSON null, a JSON object, a JSON array
InvalidBody == [kind |-> "invalid", obj |-> NoObject, list |-> <<>>]
NullBody == [kind |-> "null", obj |-> NoObject, list |-> <<>>]
ObjBody(o) == [kind |-> "obj", obj |-> o, list |-> <<>>]
ListBody(l) == [kind |-> "list", obj |-> NoObject, list |-> l]

BodiesOver(objects) ==
    {InvalidBody, NullBody}
        \cup {ObjBody(o) : o \in objects}
        \cup {ListBody(l) : l \in SeqUpTo(objects, MaxRows)}

\* rows of the documents table, with or without the server-assigned id
DocRecords ==
    {JsonObject({"name", "id"}, "id", v) : v \in DocIdValues}
        \cup {JsonObject({"name"}, "id", "x")}

\* bodies of the function's answer, with or without run_id
RunResults ==
    {JsonObject({"message", "run_id"}, "run_id", v) : v \in RunIdValues}
        \cup {JsonObject({"message"}, "run_id", "x")}

\* the columns a complete row of the runs table carries
RunColumns ==
    {"status", "total_operations", "completed_operations",
     "failed_operations", "started_at"}

\* rows of the runs table: complete, with or without completed_at and in
\* either status, or with one of the columns missing
RunRows ==
    {JsonObject(ks, "status", s) :
        ks \in {RunColumns, RunColumns \cup {"completed_at"}},
        s \in RunStatuses}
        \cup {JsonObject(RunColumns \ {f}, "status", "pending") : f \in RunColumns}

InsertBodies == BodiesOver(DocRecords)
FunctionBodies == BodiesOver(RunResults)
StatusBodies == BodiesOver(RunRows)

NoResponse == [status |-> 0, body |-> NullBody]

\* -------------------------------------------------------- pure functions
\* Truthy as `x is not None` would have it: the empty string passes
TruthyNotNone(v) == v # None

\* truth value of a string or None in `if not x`
Truthy(v) == v \notin {None, ""}

HexDigits ==
    <<"0", "1", "2", "3", "4", "5", "6", "7",
      "8", "9", "a", "b", "c", "d", "e", "f">>

\* HexByte without the high nibble
HexByteLowNibble(b) == <<"0", HexDigits[(b % 16) + 1]>>

\* bytes.hex() of one byte: two lowercase digits, high nibble first
HexByte(b) == <<HexDigits[(b \div 16) + 1], HexDigits[(b % 16) + 1]>>

RECURSIVE Hex(_)
Hex(bs) == IF bs = <<>> THEN <<>> ELSE HexByte(Head(bs)) \o Hex(Tail(bs))

\* byte values os.urandom is let to return in the model
ByteSamples == <<10, 26, 161, 255>>
RandomBytes == {ByteSamples[i] : i \in 1..NumSamples}
URandom(n) == [1..n -> RandomBytes]

\* f"{ORGANIZATION_ID}/test-contract-{os.urandom(4).hex()}.txt", as its pieces
StoragePath(bytes) ==
    <<ORGANIZATION_ID, "/", "test-contract-">> \o Hex(bytes) \o <<".txt">>

NoPath == <<>>

\* UploadOk accepting every 2xx status
UploadOkAny2xx(status) == status \in 200..299

UploadOk(status) == status \in {200, 201}
\* InsertOk accepting every 2xx status
InsertOkAny2xx(status) == status \in 200..299

InsertOk(status) == status \in {200, 201}
\* FunctionOk accepting every 2xx status
FunctionOkAny2xx(status) == status \in 200..299

FunctionOk(status) == status = 202
StatusOk(status) == status = 200

\* DocumentOf taking document[-1]
DocumentOfLast(body) ==
    IF body.kind = "list" THEN body.list[Len(body.list)] ELSE body.obj

\* response.json(); isinstance(document, list) -> document[0]; document['id']
\* raises for text that is not JSON, an empty list, null, a missing key
DocumentOf(body) ==
    IF body.kind = "list" THEN body.list[1] ELSE body.obj

ExtractFaults(body) ==
    \/ body.kind \in {"invalid", "null"}
    \/ body.kind = "list" /\ body.list = <<>>
    \/ "id" \notin DOMAIN DocumentOf(body)

ExtractDocumentId(body) == DocumentOf(body)["id"]

\* response.json(); result.get('run_id')
\* raises for text that is not JSON and for a body that is no object
RunIdFaults(body) == body.kind # "obj"

GetRunId(body) ==
    IF "run_id" \in DOMAIN body.obj THEN body.obj["run_id"] ELSE None

\* RunPrintOrder with started_at read by run.get
RunPrintOrderNoStart ==
    <<"status", "total_operations", "completed_operations",
      "failed_operations">>

\* the fields check_run_status reads with run[...], in the order it prints them
RunPrintOrder ==
    <<"status", "total_operations", "completed_operations",
      "failed_operations", "started_at">>

\* `if runs:` of check_run_status: a non-empty list or object
RunsTruthy(body) ==
    \/ body.kind = "list" /\ body.list # <<>>
    \/ body.kind = "obj"

\* number of fields of RunPrintOrder printed before run[...] raises
RECURSIVE PrintedFields(_, _)
PrintedFields(row, i) ==
    IF i > Len(RunPrintOrder) \/ RunPrintOrder[i] \notin DOMAIN row
    THEN 0
    ELSE 1 + PrintedFields(row, i + 1)

\* StatusFaults without the `if runs:` guard: runs[0] of no rows raises
StatusFaultsUnguarded(body) ==
    \/ body.kind \in {"invalid", "obj", "null"}
    \/ /\ body.kind = "list"
       /\ \/ body.list = <<>>
          \/ PrintedFields(body.list[1], 1) < Len(RunPrintOrder)

\* runs = response.json(); runs[0]; run['status'] ... raise for text that is
\* not JSON, for an object (runs[0] is a missing key) and for a missing field
StatusFaults(body) ==
    \/ body.kind = "invalid"
    \/ body.kind = "obj"
    \/ /\ body.kind = "list"
       /\ body.list # <<>>
       /\ PrintedFields(body.list[1], 1) < Len(RunPrintOrder)

\* ------------------------------------------------------------------ state
VARIABLES
    pc,            \* position in the script
    anon_key,      \* SUPABASE_ANON_KEY
    service_key,   \* SUPABASE_SERVICE_ROLE_KEY
    file_readable, \* whether open(TEST_FILE, 'rb') succeeds
    storage_path,  \* upload_document's storage_path
    document_id,   \* __main__'s document_id
    run_id,        \* __main__'s run_id
    response,      \* the last response received
    calls,         \* the requests issued so far, each with its answer's status
    waited,        \* seconds spent in time.sleep
    out,           \* what was printed
    exit_code,     \* the process's exit status, NotExited while it runs
    fault,         \* the process was ended by an uncaught exception
    rand,          \* path construction alone: the bytes each invocation drew
    paths          \* path construction alone: the path each invocation built

vars ==
    <<pc, anon_key, service_key, file_readable, storage_path, document_id,
      run_id, response, calls, waited, out, exit_code, fault, rand, paths>>

Line(tag, code, id) == [tag |-> tag, code |-> code, id |-> id]

Call(endpoint, path, doc, run, status) ==
    [endpoint |-> endpoint, storage_path |-> path, document_id |-> doc,
     run_id |-> run, status |-> status]

Init ==
    /\ pc = "check_anon"
    /\ anon_key \in EnvValues
    /\ service_key \in EnvValues
    /\ file_readable \in BOOLEAN
    /\ storage_path = NoPath
    /\ document_id = None
    /\ run_id = None
    /\ response = NoResponse
    /\ calls = <<>>
    /\ waited = 0
    /\ out = <<>>
    /\ exit_code = NotExited
    /\ fault = FALSE
    /\ rand = <<>>
    /\ paths = <<>>

\* exit(code)
Exit(code) ==
    /\ pc' = "exited"
    /\ exit_code' = code
    /\ fault' = FALSE

\* an exception no handler catches: traceback, exit status 1
Raise ==
    /\ pc' = "exited"
    /\ exit_code' = EXIT_FAILURE
    /\ fault' = TRUE

Goto(label) ==
    /\ pc' = label
    /\ UNCHANGED <<exit_code, fault>>

CheckAnonKey ==
    /\ pc = "check_anon"
    /\ IF ~Truthy(anon_key)
       THEN /\ out' = Append(out, Line("ERROR anon key", 0, None))
            /\ Exit(EXIT_FAILURE)
       ELSE /\ out' = out
            /\ Goto("check_service")
    /\ UNCHANGED <<anon_key, service_key, file_readable, storage_path,
                   document_id, run_id, response, calls, waited, rand, paths>>

CheckServiceRoleKey ==
    /\ pc = "check_service"
    /\ IF ~Truthy(service_key)
       THEN /\ out' = Append(out, Line("ERROR service role key", 0, None))
            /\ Exit(EXIT_FAILURE)
       ELSE /\ out' = out
            /\ Goto("upload")
    /\ UNCHANGED <<anon_key, service_key, file_readable, storage_path,
                   document_id, run_id, response, calls, waited, rand, paths>>

\* upload_document up to the storage answer, and __main__'s exit on None
StorageUpload ==
    /\ pc = "upload"
    /\ \E bytes \in URandom(URANDOM_LEN), st \in StatusCodes :
         LET path == StoragePath(bytes) IN
         /\ storage_path' = path
         /\ IF ~file_readable
            THEN /\ Raise
                 /\ UNCHANGED <<response, calls, out>>
            ELSE /\ response' = [status |-> st, body |-> NullBody]
                 /\ calls' = Append(calls, Call("upload", path, None, None, st))
                 /\ IF ~UploadOk(st)
                    THEN /\ out' = Append(out, Line("ERROR upload", st, None))
                         /\ Exit(EXIT_FAILURE)
                    ELSE /\ out' = Append(out, Line("Uploaded", 0, None))
                         /\ Goto("insert")
    /\ UNCHANGED <<anon_key, service_key, file_readable, document_id, run_id,
                   waited, rand, paths>>

\* upload_document from the insert on, and __main__'s `if not document_id`
CreateDocumentRecord ==
    /\ pc = "insert"
    /\ \E st \in StatusCodes, body \in InsertBodies :
         /\ response' = [status |-> st, body |-> body]
         /\ calls' = Append(calls, Call("insert", storage_path, None, None, st))
         /\ IF ~InsertOk(st)
            THEN /\ out' = Append(out, Line("ERROR insert", st, None))
                 /\ document_id' = None
                 /\ Exit(EXIT_FAILURE)
            ELSE IF ExtractFaults(body)
            THEN /\ Raise
                 /\ UNCHANGED <<out, document_id>>
            ELSE /\ document_id' = ExtractDocumentId(body)
                 /\ out' = Append(out, Line("Created document record", 0,
                                            ExtractDocumentId(body)))
                 /\ IF ~Truthy(ExtractDocumentId(body))
                    THEN Exit(EXIT_FAILURE)
                    ELSE Goto("execute")
    /\ UNCHANGED <<anon_key, service_key, file_readable, storage_path, run_id,
                   waited, rand, paths>>

\* execute_processor_run, and __main__'s `if not run_id`
ExecuteProcessorRun ==
    /\ pc = "execute"
    /\ \E st \in StatusCodes, body \in FunctionBodies :
         /\ response' = [status |-> st, body |-> body]
         /\ calls' = Append(calls, Call("function", NoPath, document_id, None, st))
         /\ IF ~FunctionOk(st)
            THEN /\ out' = out \o <<Line("Calling Edge Function", 0, document_id),
                                    Line("Response Status", st, None),
                                    Line("Run failed", st, None)>>
                 /\ run_id' = None
                 /\ Exit(EXIT_FAILURE)
            ELSE IF RunIdFaults(body)
            THEN /\ out' = out \o <<Line("Calling Edge Function", 0, document_id),
                                    Line("Response Status", st, None)>>
                 /\ run_id' = run_id
                 /\ Raise
            ELSE /\ out' = out \o <<Line("Calling Edge Function", 0, document_id),
                                    Line("Response Status", st, None),
                                    Line("Run ID", 0, GetRunId(body))>>
                 /\ run_id' = GetRunId(body)
                 /\ IF ~Truthy(GetRunId(body))
                    THEN Exit(EXIT_FAILURE)
                    ELSE Goto("sleep")
    /\ UNCHANGED <<anon_key, service_key, file_readable, storage_path,
                   document_id, waited, rand, paths>>

\* Sleep without the sleep
SleepSkipped ==
    /\ pc = "sleep"
    /\ Goto("status")
    /\ UNCHANGED <<anon_key, service_key, file_readable, storage_path,
                   document_id, run_id, response, calls, waited, out, rand,
                   paths>>

\* time.sleep(2)
Sleep ==
    /\ pc = "sleep"
    /\ waited' = waited + SLEEP_SECONDS
    /\ Goto("status")
    /\ UNCHANGED <<anon_key, service_key, file_readable, storage_path,
                   document_id, run_id, response, calls, out, rand, paths>>

\* the lines check_run_status prints for a row before it returns or raises
RunLines(row) ==
    [i \in 1..PrintedFields(row, 1) |->
        Line(RunPrintOrder[i], 0, IF i = 1 THEN row["status"] ELSE None)]

Summary ==
    <<Line("Test Complete", 0, None),
      Line("Summary Run ID", 0, run_id),
      Line("Summary Document ID", 0, document_id)>>

\* check_run_status, and the rest of __main__
CheckRunStatus ==
    /\ pc = "status"
    /\ \E st \in StatusCodes, body \in StatusBodies :
         /\ response' = [status |-> st, body |-> body]
         /\ calls' = Append(calls, Call("status", NoPath, None, run_id, st))
         /\ IF StatusOk(st) /\ StatusFaults(body)
            THEN /\ out' = out \o (IF body.kind = "list" /\ body.list # <<>>
                                   THEN RunLines(body.list[1])
                                   ELSE <<>>)
                 /\ Raise
            ELSE IF StatusOk(st) /\ RunsTruthy(body)
            THEN /\ out' = out \o RunLines(body.list[1])
                              \o <<Line("completed_at", 0, None)>>
                              \o Summary
                 /\ Exit(EXIT_SUCCESS)
            ELSE /\ out' = out \o Summary
                 /\ Exit(EXIT_SUCCESS)
    /\ UNCHANGED <<anon_key, service_key, file_readable, storage_path,
                   document_id, run_id, waited, rand, paths>>

Next ==
    \/ CheckAnonKey
    \/ CheckServiceRoleKey
    \/ StorageUpload
    \/ CreateDocumentRecord
    \/ ExecuteProcessorRun
    \/ Sleep
    \/ CheckRunStatus

Spec == Init /\ [][Next]_vars

\* ------------------------------------------- path construction on its own
MaxInvocations == 2

PathInit ==
    /\ pc = "upload"
    /\ anon_key = "key"
    /\ service_key = "key"
    /\ file_readable = TRUE
    /\ storage_path = NoPath
    /\ document_id = None
    /\ run_id = None
    /\ response = NoResponse
    /\ calls = <<>>
    /\ waited = 0
    /\ out = <<>>
    /\ exit_code = NotExited
    /\ fault = FALSE
    /\ rand = <<>>
    /\ paths = <<>>

\* line 33 of upload_document, invoked on its own
BuildStoragePath ==
    /\ Len(paths) < MaxInvocations
    /\ \E bytes \in URandom(URANDOM_LEN) :
         /\ rand' = Append(rand, bytes)
         /\ paths' = Append(paths, StoragePath(bytes))
         /\ storage_path' = StoragePath(bytes)
    /\ UNCHANGED <<pc, anon_key, service_key, file_readable, document_id,
                   run_id, response, calls, waited, out, exit_code, fault>>

PathNext == BuildStoragePath

PathSpec == PathInit /\ [][PathNext]_vars

\* ------------------------------------------------------------ properties
TheEndpoints == {"upload", "insert", "function", "status"}

Endpoints == [i \in 1..Len(calls) |-> calls[i].endpoint]

Issued(e) == \E i \in 1..Len(calls) : calls[i].endpoint = e

TimesIssued(e) == Cardinality({i \in 1..Len(calls) : calls[i].endpoint = e})

Printed(tag) == \E i \in 1..Len(out) : out[i].tag = tag

PrintedId(tag, id) == \E i \in 1..Len(out) : out[i].tag = tag /\ out[i].id = id

PrintedCode(tag, code) ==
    \E i \in 1..Len(out) : out[i].tag = tag /\ out[i].code = code

\* an environment variable that is unset, or set to the empty string
KeyMissing(k) == k = None \/ k = ""

Exited(code) == pc = "exited" /\ exit_code = code

\* C1: with either credential absent or empty no network call is ever made,
\* the script never gets past the credential checks, and when it has ended
\* it has ended through exit(1) after printing the error.
C1_MissingCredentialExits ==
    (KeyMissing(anon_key) \/ KeyMissing(service_key)) =>
        /\ calls = <<>>
        /\ pc \in {"check_anon", "check_service", "exited"}
        /\ pc = "exited" =>
              /\ exit_code = 1
              /\ ~fault
              /\ Printed("ERROR anon key") \/ Printed("ERROR service role key")

C1_Witness ==
    /\ anon_key = "key"
    /\ service_key = ""
    /\ Exited(1)
    /\ calls = <<>>

\* C2: an upload answered with a status other than 200 or 201 is the only
\* call of the execution, and the process has ended with exit code 1.
C2_UploadFailureAborts ==
    \A i \in 1..Len(calls) :
        (calls[i].endpoint = "upload" /\ calls[i].status \notin {200, 201}) =>
            /\ Len(calls) = 1
            /\ Exited(1)
            /\ waited = 0

C2_Witness ==
    /\ Len(calls) = 1
    /\ calls[1].endpoint = "upload"
    /\ calls[1].status = 202
    /\ Exited(1)

\* C3: a function invocation answered with a status other than 202 is
\* reported as a failed run, no delay and no status read follow it, and the
\* process has ended with exit code 1.
C3_FunctionFailureAborts ==
    \A i \in 1..Len(calls) :
        (calls[i].endpoint = "function" /\ calls[i].status # 202) =>
            /\ PrintedCode("Run failed", calls[i].status)
            /\ ~Issued("status")
            /\ waited = 0
            /\ Len(calls) = i
            /\ Exited(1)

C3_Witness ==
    /\ Len(calls) = 3
    /\ calls[3].endpoint = "function"
    /\ calls[3].status = 200
    /\ Exited(1)

\* what the answers carry
HasNonEmpty(obj, key) == key \in DOMAIN obj /\ obj[key] \notin {None, ""}

CarriesId(body) ==
    \/ body.kind = "obj" /\ HasNonEmpty(body.obj, "id")
    \/ body.kind = "list" /\ body.list # <<>> /\ HasNonEmpty(body.list[1], "id")

CarriesRunId(body) == body.kind = "obj" /\ HasNonEmpty(body.obj, "run_id")

\* a run answer with no row, or whose first row has every column
CompleteRuns(body) ==
    \/ body.kind = "null"
    \/ body.kind = "list" /\ body.list = <<>>
    \/ body.kind = "list" /\ body.list # <<>> /\ RunColumns \subseteq DOMAIN body.list[1]

SuccessStatus(endpoint, status) ==
    CASE endpoint = "upload" -> status \in {200, 201}
      [] endpoint = "insert" -> status \in {200, 201}
      [] endpoint = "function" -> status = 202
      [] endpoint = "status" -> status = 200

FourCallsInOrder == Endpoints = <<"upload", "insert", "function", "status">>

\* the last answer received is the one the scenario of C4 prescribes
LastAnswerAsPrescribed ==
    \/ calls = <<>>
    \/ /\ calls # <<>>
       /\ SuccessStatus(calls[Len(calls)].endpoint, response.status)
       /\ calls[Len(calls)].endpoint = "insert" => CarriesId(response.body)
       /\ calls[Len(calls)].endpoint = "function" => CarriesRunId(response.body)
       /\ calls[Len(calls)].endpoint = "status" => CompleteRuns(response.body)

\* C4 as stated: all four calls answered with their success status, the
\* insert with an id and the function with a run_id, end in exit code 0.
C4_AsStated ==
    ( /\ pc = "exited"
      /\ ~KeyMissing(anon_key)
      /\ ~KeyMissing(service_key)
      /\ file_readable
      /\ FourCallsInOrder
      /\ \A i \in 1..4 : SuccessStatus(calls[i].endpoint, calls[i].status)
      /\ document_id \notin {None, ""}
      /\ run_id \notin {None, ""} )
        => exit_code = 0

\* C4 (amended): with both credentials present and the file readable, as
\* long as every answer is the prescribed one (success status; a non-empty
\* id; a non-empty run_id; a run answer without rows or with a complete
\* first row) the script only ends after the four calls upload, insert,
\* function invocation, status read, in that order, with exit code 0.
C4_HappyPathCompletes ==
    ( /\ pc = "exited"
      /\ ~KeyMissing(anon_key)
      /\ ~KeyMissing(service_key)
      /\ file_readable
      /\ \A i \in 1..Len(calls) : SuccessStatus(calls[i].endpoint, calls[i].status)
      /\ LastAnswerAsPrescribed )
        => /\ FourCallsInOrder
           /\ exit_code = 0
           /\ ~fault

C4_Witness ==
    /\ Exited(0)
    /\ FourCallsInOrder
    /\ \A i \in 1..4 : SuccessStatus(calls[i].endpoint, calls[i].status)
    /\ response.body.kind = "list"
    /\ response.body.list # <<>>
    /\ Printed("Test Complete")

\* C5: a call answered with a non-success status (read here as any status
\* outside 2xx) is logged with that status and the process ends with exit
\* code 1.
C5_NonSuccessExitsOne ==
    \A i \in 1..Len(calls) :
        calls[i].status \notin 200..299 =>
            /\ Exited(1)
            /\ \E j \in 1..Len(out) : out[j].code = calls[i].status

\* the expected field is missing from the last answer
LacksId(body) ==
    \/ body.kind = "obj" /\ "id" \notin DOMAIN body.obj
    \/ body.kind = "list" /\ body.list # <<>> /\ "id" \notin DOMAIN body.list[1]

LacksRunId(body) == body.kind = "obj" /\ "run_id" \notin DOMAIN body.obj

LacksRunColumn(body) ==
    /\ body.kind = "list"
    /\ body.list # <<>>
    /\ ~(RunColumns \subseteq DOMAIN body.list[1])

LastAnswerLacks(endpoint) ==
    /\ calls # <<>>
    /\ calls[Len(calls)].endpoint = endpoint
    /\ SuccessStatus(endpoint, response.status)
    /\ CASE endpoint = "insert" -> LacksId(response.body)
         [] endpoint = "function" -> LacksRunId(response.body)
         [] endpoint = "status" -> LacksRunColumn(response.body)

\* the script was ended by an uncaught exception and did nothing afterwards
EndedByFault ==
    /\ fault
    /\ Exited(1)
    /\ waited = (IF Issued("status") THEN SLEEP_SECONDS ELSE 0)
    /\ ~Printed("Test Complete")

\* C6 as stated: a success answer lacking its expected field ends the
\* script through an unhandled fault, whichever of the three calls it is.
C6_AsStated ==
    \A e \in {"insert", "function", "status"} :
        LastAnswerLacks(e) => EndedByFault

\* C6 (amended): an inserted record without id and a run row without one of
\* its required fields end the script through an unhandled fault; a function
\* answer without run_id raises nothing: run_id is None and the script ends
\* through its guarded exit(1). In all three cases no later step is executed.
C6_MissingFieldEnds ==
    /\ LastAnswerLacks("insert") => EndedByFault
    /\ LastAnswerLacks("status") => EndedByFault
    /\ LastAnswerLacks("function") =>
          /\ ~fault
          /\ Exited(1)
          /\ run_id = None
          /\ waited = 0
          /\ ~Issued("status")

C6_Witness ==
    /\ LastAnswerLacks("status")
    /\ "started_at" \notin DOMAIN response.body.list[1]
    /\ fault
    /\ Printed("failed_operations")

\* C7 as stated: the paths of two invocations differ.
C7_AsStated ==
    \A i, j \in 1..Len(paths) : i # j => paths[i] # paths[j]

IsHexDigit(c) ==
    c \in {"0", "1", "2", "3", "4", "5", "6", "7",
           "8", "9", "a", "b", "c", "d", "e", "f"}

\* C7 (amended): the paths of two invocations differ exactly when the two
\* draws of four random bytes differ; each path is the organization
\* identifier, a slash, and the file name test-contract-<8 hex digits>.txt.
C7_PathsDifferWithDraws ==
    /\ Len(paths) = Len(rand)
    /\ \A i, j \in 1..Len(paths) : (paths[i] = paths[j]) <=> (rand[i] = rand[j])
    /\ \A i \in 1..Len(paths) :
          /\ Len(paths[i]) = 12
          /\ paths[i][1] = "b822d5c9-706a-4e37-9d7a-c0b0417efe56"
          /\ paths[i][2] = "/"
          /\ paths[i][3] = "test-contract-"
          /\ \A k \in 4..11 : IsHexDigit(paths[i][k])
          /\ paths[i][12] = ".txt"

C7_Witness ==
    /\ Len(paths) = 2
    /\ rand[1] # rand[2]
    /\ rand[1][1] % 16 = rand[2][1] % 16
    /\ paths[1] # paths[2]

\* C8: the insert is the second call, issued after an upload answered 200 or
\* 201; an insert answered otherwise is the last call (no function call, no
\* status read, no call undoing the upload) and the process has ended with
\* exit code 1.
C8_InsertAfterUpload ==
    \A i \in 1..Len(calls) :
        calls[i].endpoint = "insert" =>
            /\ i = 2
            /\ calls[1].endpoint = "upload"
            /\ calls[1].status \in {200, 201}
            /\ calls[2].status \notin {200, 201} =>
                  /\ Len(calls) = 2
                  /\ Exited(1)
                  /\ waited = 0

C8_Witness ==
    /\ Len(calls) = 2
    /\ calls[2].endpoint = "insert"
    /\ calls[2].status = 202
    /\ calls[1].status = 201
    /\ Exited(1)

\* C9: every endpoint is called at most once, four calls at most are made,
\* and the status read is made after the delay of two seconds and is the
\* last thing the script calls, whatever the run's status.
C9_EachEndpointOnce ==
    /\ \A e \in TheEndpoints : TimesIssued(e) <= 1
    /\ \A i \in 1..Len(calls) : calls[i].endpoint \in TheEndpoints
    /\ Len(calls) <= 4
    /\ waited \in {0, 2}
    /\ Issued("status") =>
          /\ waited = 2
          /\ pc = "exited"
          /\ calls[Len(calls)].endpoint = "status"

C9_Witness ==
    /\ Len(calls) = 4
    /\ calls[4].endpoint = "status"
    /\ response.status = 200
    /\ response.body.kind = "list"
    /\ response.body.list # <<>>
    /\ "status" \in DOMAIN response.body.list[1]
    /\ response.body.list[1]["status"] = "pending"
    /\ Exited(0)

\* the id of the record an insert answer returns
RecordId(body) ==
    IF body.kind = "list" THEN body.list[1]["id"] ELSE body.obj["id"]

\* C10: the document id kept after the insert is the id of the returned
\* record (of the first one of a list) and is the one sent to the function;
\* the run id kept after the function call is the run_id of its answer and
\* is the one the status read filters on; the record's storage_path is the
\* path uploaded to; the summary prints these two identifiers.
C10_IdentifiersFlow ==
    /\ pc = "execute" =>
          /\ CarriesId(response.body)
          /\ document_id = RecordId(response.body)
    /\ Len(calls) >= 2 =>
          /\ calls[2].storage_path = calls[1].storage_path
          /\ calls[1].storage_path = storage_path
          /\ storage_path # NoPath
    /\ Len(calls) >= 3 => calls[3].document_id = document_id
    /\ pc \in {"sleep", "status"} =>
          /\ CarriesRunId(response.body)
          /\ run_id = response.body.obj["run_id"]
    /\ Len(calls) >= 4 => calls[4].run_id = run_id
    /\ Printed("Test Complete") =>
          /\ PrintedId("Summary Run ID", calls[4].run_id)
          /\ PrintedId("Summary Document ID", calls[3].document_id)

C10_Witness ==
    /\ Exited(0)
    /\ calls[3].document_id = "doc-2"
    /\ calls[4].run_id = "run-2"
    /\ PrintedId("Summary Run ID", "run-2")
    /\ PrintedId("Summary Document ID", "doc-2")

====
